---- MODULE Spec2Model ----
(***************************************************************************)
(* Model of src/main.py: the command-line entry point that parses --model, *)
(* and main(args), the linear fine-tuning pipeline                         *)
(*   user_login -> load model -> load dataset -> log example ->            *)
(*   create_SFT_trainer -> train_and_save_model -> cleanup.                *)
(* The imported functions are external; each call is recorded in the call  *)
(* log `calls` (what a mock would see) and either returns or raises.       *)
(* An uncaught exception ends the process.  The script may be launched     *)
(* again; `history` remembers under which name each launch asked for the   *)
(* trained model to be saved and which loaders that launch had used.       *)
(***************************************************************************)
EXTENDS Naturals, Sequences, FiniteSets, TLC

\* ---------------------------------------------------------------- bounds
\* longest command line (number of arguments after the script name)
MaxArgv == 2
\* number of times the script is launched
MaxRuns == 2

\* ------------------------------------------------------- Python values
\* str and None are distinct Python values; a local not yet assigned is Unbound
PyStr(s) == [t |-> "str", v |-> s]
PyNone == [t |-> "none", v |-> ""]
Unbound == [t |-> "unbound", v |-> ""]

\* str(x) as used by an f-string replacement field
Format(x) == IF x.t = "none" THEN "None" ELSE x.v

\* os.path.join on POSIX for relative components
RECURSIVE PathJoin(_)
PathJoin(parts) ==
    IF Len(parts) = 1 THEN parts[1]
    ELSE parts[1] \o "/" \o PathJoin(Tail(parts))

\* ------------------------------------------------------- command line
\* the argument strings a command line is drawn from
Tokens == {"--model", "--mod", "--model=unsloth", "-h", "base", "unsloth", "orpo"}

\* choices=["base", "unsloth"] of the --model option
choices == {"base", "unsloth"}

\* an argument string that starts with '-' is option-like
IsOptionLike(tok) == tok \in {"--model", "--mod", "--model=unsloth", "-h"}

\* the option string selects --model: exact, an unambiguous prefix, or
\* the --model=VALUE form
IsModelOption(tok) == tok \in {"--model", "--mod", "--model=unsloth"}

\* the --opt=VALUE form carries its argument inside the argument string
HasExplicitArg(tok) == tok = "--model=unsloth"
ExplicitArg(tok) == IF tok = "--model=unsloth" THEN "unsloth" ELSE ""

\* plausible bug: the option is declared without choices
CheckValueAny(value) == TRUE

\* argparse's check of a value against the option's choices
CheckValue(value) == value \in choices

ParseOk(m) == [exit |-> "none", model |-> m]
ParseError == [exit |-> "usage_error", model |-> PyNone]
ParseHelp == [exit |-> "help", model |-> PyNone]

\* parser.parse_args(): consume argv left to right.  model starts as the
\* option's default (None); strings that match no option are collected in
\* extras and reported when the end of the command line is reached.
RECURSIVE Consume(_, _, _, _)
Consume(av, i, model, extras) ==
    IF i > Len(av)
    THEN IF extras # <<>> THEN ParseError ELSE ParseOk(model)
    ELSE IF av[i] = "-h"
    THEN ParseHelp
    ELSE IF IsModelOption(av[i])
    THEN IF HasExplicitArg(av[i])
         THEN IF CheckValue(ExplicitArg(av[i]))
              THEN Consume(av, i + 1, PyStr(ExplicitArg(av[i])), extras)
              ELSE ParseError
         ELSE IF i + 1 > Len(av) \/ IsOptionLike(av[i + 1])
         THEN ParseError
         ELSE IF CheckValue(av[i + 1])
         THEN Consume(av, i + 2, PyStr(av[i + 1]), extras)
         ELSE ParseError
    ELSE Consume(av, i + 1, model, Append(extras, av[i]))

parse_args(av) == Consume(av, 1, PyNone, <<>>)

\* all command lines of at most n arguments
RECURSIVE ArgvUpTo(_)
ArgvUpTo(n) ==
    IF n = 0 THEN {<<>>}
    ELSE ArgvUpTo(n - 1) \cup
         {Append(a, t) : a \in {b \in ArgvUpTo(n - 1) : Len(b) = n - 1}, t \in Tokens}

\* --------------------------------------------------- the mode dispatch
embedding_model_name == "sentence-transformers/all-mpnet-base-v2"
db_directory == PathJoin(<<"..", "chroma_db">>)

\* plausible bug: the two model identifiers swapped between the branches
ModelChoiceSwapped(mt) ==
    IF mt = PyStr("base")
    THEN [base_model |-> "unsloth/Meta-Llama-3.1-8B-bnb-4bit",
          load_func |-> "load_model_and_tokenizer"]
    ELSE [base_model |-> "meta-llama/Meta-Llama-3-8B-Instruct",
          load_func |-> "load_unsloth_model_and_tokenizer"]

\* first branch point: model identifier and loader
ModelChoice(mt) ==
    IF mt = PyStr("base")
    THEN [base_model |-> "meta-llama/Meta-Llama-3-8B-Instruct",
          load_func |-> "load_model_and_tokenizer"]
    ELSE [base_model |-> "unsloth/Meta-Llama-3.1-8B-bnb-4bit",
          load_func |-> "load_unsloth_model_and_tokenizer"]

\* plausible bug: the second branch point tests for the other mode
DatasetChoiceOnUnsloth(mt) ==
    IF mt = PyStr("unsloth")
    THEN [dataset_name |-> "yahma/alpaca-cleaned",
          data_func |-> "load_and_prepare_unsloth_dataset"]
    ELSE [dataset_name |-> PathJoin(<<"..", "data", "train", "mrd3_dataset.json">>),
          data_func |-> "load_and_process_dataset"]

\* second branch point: dataset source and processing function
DatasetChoice(mt) ==
    IF mt = PyStr("base")
    THEN [dataset_name |-> PathJoin(<<"..", "data", "train", "mrd3_dataset.json">>),
          data_func |-> "load_and_process_dataset"]
    ELSE [dataset_name |-> "yahma/alpaca-cleaned",
          data_func |-> "load_and_prepare_unsloth_dataset"]

\* plausible bug: the save name does not mention the mode
NewModelFixed(mt) == "stf-Llama-3-8B-Instruct"

\* the name under which the trained model is saved
NewModel(mt) == "stf-" \o Format(mt) \o "-Llama-3-8B-Instruct"

\* plausible bug: a different epoch count and no push
TrainerKwargsOther == [push_to_hub |-> FALSE, num_train_epochs |-> 3]

\* keyword arguments of create_SFT_trainer
TrainerKwargs == [push_to_hub |-> TRUE, num_train_epochs |-> 1]

\* keyword arguments of train_and_save_model
TrainKwargs(name) == [new_model |-> name, push_to_hub |-> TRUE]

\* ------------------------------------------------------------- state
VARIABLES
    run,          \* number of this launch of the script
    argv,         \* the command line of this launch
    in_script_dir,\* os.getcwd() = script_dir
    pc,           \* position of the process
    args,         \* args.model of the parsed namespace
    model_type, base_model, load_func, new_model, dataset_name,
    bundle,       \* (model, tokenizer, peft_config) or Unbound
    dataset,      \* the dataset bundle or Unbound
    trainer,      \* "unbound", "bound", or "deleted" after del trainer
    calls,        \* the calls made by this launch, in order
    failed,       \* the step whose exception ended this launch, or ""
    history       \* per earlier or current launch that asked for a save

vars == <<run, argv, in_script_dir, pc, args, model_type, base_model, load_func,
          new_model, dataset_name, bundle, dataset, trainer, calls, failed, history>>

locals == <<model_type, base_model, load_func, new_model, dataset_name,
            bundle, dataset, trainer>>

Call(fn, a) == [fn |-> fn, args |-> a]
Info(msg) == Call("logger.info", <<msg>>)

\* what a dataset loader may hand back
DatasetShapes == {"ok", "no_train_demo", "empty_text", "no_eval_demo"}

\* the process has ended
Terminal == {"usage_error", "help", "raised", "done"}

Fresh(av, d) ==
    /\ argv = av
    /\ in_script_dir = d
    /\ pc = "parse"
    /\ args = Unbound
    /\ model_type = Unbound
    /\ base_model = Unbound
    /\ load_func = Unbound
    /\ new_model = Unbound
    /\ dataset_name = Unbound
    /\ bundle = Unbound
    /\ dataset = Unbound
    /\ trainer = "unbound"
    /\ calls = <<>>
    /\ failed = ""

Init ==
    /\ run = 1
    /\ history = {}
    /\ \E av \in ArgvUpTo(MaxArgv), d \in BOOLEAN : Fresh(av, d)

\* an uncaught exception at step s ends the process
Raise(s) ==
    /\ pc' = "raised"
    /\ failed' = s

\* parser.parse_args(): a usage error or -h exits before anything else runs
ParseArgs ==
    /\ pc = "parse"
    /\ LET r == parse_args(argv) IN
         IF r.exit = "none"
         THEN pc' = "chdir" /\ args' = r.model
         ELSE pc' = r.exit /\ args' = args
    /\ UNCHANGED <<run, argv, in_script_dir, locals, calls, failed, history>>

\* change to the script's directory when started from elsewhere, then main(args)
Chdir ==
    /\ pc = "chdir"
    /\ in_script_dir' = TRUE
    /\ pc' = "main"
    /\ UNCHANGED <<run, argv, args, locals, calls, failed, history>>

\* model_type = args.model; logger = CustomLogger(...)
MainEntry ==
    /\ pc = "main"
    /\ model_type' = args
    /\ calls' = Append(calls, Call("CustomLogger", <<>>))
    /\ pc' = "login"
    /\ UNCHANGED <<run, argv, in_script_dir, args, base_model, load_func, new_model,
                   dataset_name, bundle, dataset, trainer, failed, history>>

\* plausible bug: a failed login is swallowed and the run goes on
LoginSwallow ==
    /\ pc = "login"
    /\ calls' = Append(calls, Call("user_login", <<>>))
    /\ pc' = "select_model"
    /\ \E ok \in BOOLEAN : failed' = IF ok THEN failed ELSE "login"
    /\ UNCHANGED <<run, argv, in_script_dir, args, locals, history>>

\* user_login(logger)
Login ==
    /\ pc = "login"
    /\ calls' = Append(calls, Call("user_login", <<>>))
    /\ \E ok \in BOOLEAN :
         IF ok THEN pc' = "select_model" /\ failed' = failed ELSE Raise("login")
    /\ UNCHANGED <<run, argv, in_script_dir, args, locals, history>>

\* the first branch on model_type, the save name, and the log line
SelectModel ==
    /\ pc = "select_model"
    /\ base_model' = PyStr(ModelChoice(model_type).base_model)
    /\ load_func' = PyStr(ModelChoice(model_type).load_func)
    /\ new_model' = PyStr(NewModel(model_type))
    /\ calls' = Append(calls,
                  Info("Loading base model: " \o ModelChoice(model_type).base_model))
    /\ pc' = "load_model"
    /\ UNCHANGED <<run, argv, in_script_dir, args, model_type, dataset_name,
                   bundle, dataset, trainer, failed, history>>

\* plausible bug: a failed model load is tried once more
LoadModelRetry ==
    /\ pc = "load_model"
    /\ calls' = Append(calls, Call(load_func.v, [base_model |-> base_model.v]))
    /\ \E ok \in BOOLEAN :
         IF ok
         THEN bundle' = PyStr("model,tokenizer,peft_config")
              /\ pc' = "load_data" /\ failed' = failed
         ELSE IF \E i \in 1..Len(calls) : calls[i].fn = load_func.v
         THEN bundle' = bundle /\ Raise("model_load")
         ELSE bundle' = bundle /\ pc' = "load_model" /\ failed' = failed
    /\ UNCHANGED <<run, argv, in_script_dir, args, model_type, base_model, load_func,
                   new_model, dataset_name, dataset, trainer, history>>

\* model, tokenizer, peft_config = load_func(base_model, logger=logger)
LoadModel ==
    /\ pc = "load_model"
    /\ calls' = Append(calls, Call(load_func.v, [base_model |-> base_model.v]))
    /\ \E ok \in BOOLEAN :
         IF ok
         THEN bundle' = PyStr("model,tokenizer,peft_config")
              /\ pc' = "load_data" /\ failed' = failed
         ELSE bundle' = bundle /\ Raise("model_load")
    /\ UNCHANGED <<run, argv, in_script_dir, args, model_type, base_model, load_func,
                   new_model, dataset_name, dataset, trainer, history>>

\* the arguments the chosen dataset function is called with
DataArgs(choice) ==
    IF choice.data_func = "load_and_process_dataset"
    THEN [dataset_name |-> choice.dataset_name,
          embedding_model_name |-> embedding_model_name,
          db_directory |-> db_directory]
    ELSE [dataset_name |-> choice.dataset_name]

\* the second branch on model_type: log the source, call the dataset function
LoadData ==
    /\ pc = "load_data"
    /\ LET choice == DatasetChoice(model_type) IN
         /\ dataset_name' = PyStr(choice.dataset_name)
         /\ calls' = calls \o <<Info("Loading SFT dataset: " \o choice.dataset_name),
                                Call(choice.data_func, DataArgs(choice))>>
    /\ \/ \E shape \in DatasetShapes :
            dataset' = PyStr(shape) /\ pc' = "log_example" /\ failed' = failed
       \/ dataset' = dataset /\ Raise("dataset_load")
    /\ UNCHANGED <<run, argv, in_script_dir, args, model_type, base_model, load_func,
                   new_model, bundle, trainer, history>>

\* logger.info(header); logger.info(dataset["train_demo"]["text"][0])
\* the subscripts raise before the second logger.info is called
LogExample ==
    /\ pc = "log_example"
    /\ IF dataset.v \in {"no_train_demo", "empty_text"}
       THEN /\ calls' = Append(calls, Info("Example of training input --------"))
            /\ Raise("example_logging")
       ELSE /\ calls' = calls \o <<Info("Example of training input --------"),
                                   Info("text[0]")>>
            /\ pc' = "create_trainer" /\ failed' = failed
    /\ UNCHANGED <<run, argv, in_script_dir, args, locals, history>>

\* trainer = create_SFT_trainer(..., push_to_hub=True, num_train_epochs=1)
\* dataset["eval_demo"] is evaluated before the call is made
CreateTrainer ==
    /\ pc = "create_trainer"
    /\ IF dataset.v = "no_eval_demo"
       THEN /\ calls' = Append(calls, Info("Creating SFT trainer..."))
            /\ trainer' = trainer
            /\ Raise("trainer_creation")
       ELSE /\ calls' = calls \o <<Info("Creating SFT trainer..."),
                                   Call("create_SFT_trainer", TrainerKwargs)>>
            /\ \E ok \in BOOLEAN :
                 IF ok
                 THEN trainer' = "bound" /\ pc' = "train" /\ failed' = failed
                 ELSE trainer' = trainer /\ Raise("trainer_creation")
    /\ UNCHANGED <<run, argv, in_script_dir, args, model_type, base_model, load_func,
                   new_model, dataset_name, bundle, dataset, history>>

\* train_and_save_model(trainer, new_model, push_to_hub=True, logger=logger)
Train ==
    /\ pc = "train"
    /\ calls' = Append(calls, Call("train_and_save_model", TrainKwargs(new_model.v)))
    /\ history' = history \cup
         {[run |-> run, name |-> new_model.v, load_func |-> load_func.v,
           data_func |-> DatasetChoice(model_type).data_func]}
    /\ \E ok \in BOOLEAN :
         IF ok THEN pc' = "cleanup" /\ failed' = failed ELSE Raise("training")
    /\ UNCHANGED <<run, argv, in_script_dir, args, locals>>

\* plausible bug: after the cleanup the trainer is run again
CleanupThenTrain ==
    /\ pc = "cleanup"
    /\ trainer' = "deleted"
    /\ calls' = calls \o <<Call("gc.collect", <<>>), Call("torch.cuda.empty_cache", <<>>),
                           Call("train_and_save_model", TrainKwargs(new_model.v))>>
    /\ pc' = "done"
    /\ UNCHANGED <<run, argv, in_script_dir, args, model_type, base_model, load_func,
                   new_model, dataset_name, bundle, dataset, failed, history>>

\* del trainer; gc.collect(); torch.cuda.empty_cache(); logger.info(...)
Cleanup ==
    /\ pc = "cleanup"
    /\ trainer' = "deleted"
    /\ calls' = calls \o <<Call("gc.collect", <<>>), Call("torch.cuda.empty_cache", <<>>),
                           Info("Cleaned up memory post-training.")>>
    /\ pc' = "done"
    /\ UNCHANGED <<run, argv, in_script_dir, args, model_type, base_model, load_func,
                   new_model, dataset_name, bundle, dataset, failed, history>>

\* the script is started again with some command line
Launch ==
    /\ pc \in Terminal
    /\ run < MaxRuns
    /\ run' = run + 1
    /\ \E av \in ArgvUpTo(MaxArgv), d \in BOOLEAN :
         /\ argv' = av
         /\ in_script_dir' = d
    /\ pc' = "parse"
    /\ args' = Unbound
    /\ model_type' = Unbound
    /\ base_model' = Unbound
    /\ load_func' = Unbound
    /\ new_model' = Unbound
    /\ dataset_name' = Unbound
    /\ bundle' = Unbound
    /\ dataset' = Unbound
    /\ trainer' = "unbound"
    /\ calls' = <<>>
    /\ failed' = ""
    /\ UNCHANGED history

Next ==
    \/ ParseArgs
    \/ Chdir
    \/ MainEntry
    \/ Login
    \/ SelectModel
    \/ LoadModel
    \/ LoadData
    \/ LogExample
    \/ CreateTrainer
    \/ Train
    \/ Cleanup
    \/ Launch

Spec == Init /\ [][Next]_vars

\* ------------------------------------------------------------ helpers
ModelLoaders == {"load_model_and_tokenizer", "load_unsloth_model_and_tokenizer"}
DataLoaders == {"load_and_process_dataset", "load_and_prepare_unsloth_dataset"}

\* positions in the call log of calls to one of the functions fns
At(fns) == {i \in 1..Len(calls) : calls[i].fn \in fns}
Called(fns) == At(fns) # {}

\* ------------------------------------------------------------- claims

\* C1: the mode chooses the model loader and the dataset loader: in mode
\* "base" the only model load is load_model_and_tokenizer with
\* "meta-llama/Meta-Llama-3-8B-Instruct" and the only dataset load is
\* load_and_process_dataset with ../data/train/mrd3_dataset.json; in mode
\* "unsloth" they are load_unsloth_model_and_tokenizer with
\* "unsloth/Meta-Llama-3.1-8B-bnb-4bit" and load_and_prepare_unsloth_dataset
\* with "yahma/alpaca-cleaned"; a run past a load step has made that call.
C1_ModeSelectsLoaders ==
    /\ model_type = PyStr("base") =>
         /\ \A i \in At(ModelLoaders) :
              /\ calls[i].fn = "load_model_and_tokenizer"
              /\ calls[i].args.base_model = "meta-llama/Meta-Llama-3-8B-Instruct"
         /\ \A i \in At(DataLoaders) :
              /\ calls[i].fn = "load_and_process_dataset"
              /\ calls[i].args.dataset_name = "../data/train/mrd3_dataset.json"
    /\ model_type = PyStr("unsloth") =>
         /\ \A i \in At(ModelLoaders) :
              /\ calls[i].fn = "load_unsloth_model_and_tokenizer"
              /\ calls[i].args.base_model = "unsloth/Meta-Llama-3.1-8B-bnb-4bit"
         /\ \A i \in At(DataLoaders) :
              /\ calls[i].fn = "load_and_prepare_unsloth_dataset"
              /\ calls[i].args.dataset_name = "yahma/alpaca-cleaned"
    /\ (bundle # Unbound \/ failed = "model_load") => Called(ModelLoaders)
    /\ (dataset # Unbound \/ failed = "dataset_load") => Called(DataLoaders)

\* a base run with both loads made, after an unsloth run that got to training
C1_Witness ==
    /\ model_type = PyStr("base")
    /\ Called(ModelLoaders) /\ Called(DataLoaders)
    /\ \E h \in history : h.run < run /\ h.name = "stf-unsloth-Llama-3-8B-Instruct"

\* C2: the mode that reaches the dispatch in main is one of base, unsloth,
\* whatever the command line, and it stays the value read at process start.
C2_ModeIsBaseOrUnsloth ==
    model_type # Unbound =>
        /\ model_type \in {PyStr("base"), PyStr("unsloth")}
        /\ model_type = args

\* C3: once train_and_save_model has been called, the process does not end
\* without the cleanup (gc.collect, torch.cuda.empty_cache) having run, also
\* when the call raises.
C3_CleanupAfterTraining ==
    (pc \in Terminal /\ Called({"train_and_save_model"})) =>
        /\ Called({"gc.collect"})
        /\ Called({"torch.cuda.empty_cache"})
        /\ trainer = "deleted"

\* --model is followed by something that is not one of the choices
BadModelValue ==
    \E i \in 1..Len(argv) :
        /\ i < Len(argv)
        /\ argv[i] \in {"--model", "--mod"}
        /\ argv[i + 1] \notin choices

C5_LoginFirst ==
    /\ \A i \in At(ModelLoaders \cup DataLoaders) :
         \E j \in At({"user_login"}) : j < i
    /\ failed = "login" =>
         /\ pc = "raised"
         /\ ~Called(ModelLoaders \cup DataLoaders
                    \cup {"create_SFT_trainer", "train_and_save_model"})
         /\ calls[Len(calls)].fn = "user_login"

C5_Witness == failed = "login" /\ pc = "raised" /\ Called({"user_login"})

\* C6: every create_SFT_trainer call has num_train_epochs = 1 and
\* push_to_hub = True, every train_and_save_model call has push_to_hub =
\* True, and a run that got past trainer construction made such a call.
C6_FixedHyperparameters ==
    /\ \A i \in At({"create_SFT_trainer"}) :
         /\ calls[i].args.num_train_epochs = 1
         /\ calls[i].args.push_to_hub = TRUE
    /\ \A i \in At({"train_and_save_model"}) : calls[i].args.push_to_hub = TRUE
    /\ (trainer # "unbound" \/ pc \in {"train", "cleanup", "done"})
         => Called({"create_SFT_trainer"})

C6_Witness ==
    /\ model_type = PyStr("unsloth")
    /\ Called({"create_SFT_trainer"}) /\ Called({"train_and_save_model"})
    /\ pc = "done"

\* the functions a step calls last before it can fail
StepFns(s) ==
    CASE s = "login" -> {"user_login"}
      [] s = "model_load" -> ModelLoaders
      [] s = "dataset_load" -> DataLoaders
      [] s = "example_logging" -> {"logger.info"}
      [] s = "trainer_creation" -> {"create_SFT_trainer", "logger.info"}
      [] s = "training" -> {"train_and_save_model"}
      [] OTHER -> {}

C7_State ==
    /\ failed # "" =>
         /\ pc = "raised"
         /\ calls # <<>>
         /\ calls[Len(calls)].fn \in StepFns(failed)
    /\ Cardinality(At({"user_login"})) <= 1
    /\ Cardinality(At(ModelLoaders)) <= 1
    /\ Cardinality(At(DataLoaders)) <= 1
    /\ Cardinality(At({"create_SFT_trainer"})) <= 1
    /\ Cardinality(At({"train_and_save_model"})) <= 1
    /\ Cardinality(At({"gc.collect"})) <= 1
    /\ Cardinality({i \in At({"logger.info"}) : calls[i].args = <<"text[0]">>}) <= 1

C7_Step ==
    (failed # "" /\ run' = run) => (calls' = calls /\ pc' = pc /\ failed' = failed)

\* C7: a failed step ends the run at that step: the failing call is the
\* last call of the run, nothing is called afterwards, nothing is retried,
\* and each step is invoked at most once in a run.
C7_FailureTerminates == []C7_State /\ [][C7_Step]_vars

C7_Witness ==
    /\ failed = "dataset_load" /\ pc = "raised"
    /\ Called({"user_login"}) /\ Called(ModelLoaders)

\* order of the pipeline's calls
Rank(fn) ==
    CASE fn = "user_login" -> 1
      [] fn \in ModelLoaders -> 2
      [] fn \in DataLoaders -> 3
      [] fn = "create_SFT_trainer" -> 4
      [] fn = "train_and_save_model" -> 5
      [] fn \in {"gc.collect", "torch.cuda.empty_cache"} -> 6
      [] OTHER -> 0

Pipeline == {"user_login", "create_SFT_trainer", "train_and_save_model",
             "gc.collect", "torch.cuda.empty_cache"} \cup ModelLoaders \cup DataLoaders

\* the calls of the pipeline appear in the fixed order
C8_Order ==
    /\ \A i, j \in At(Pipeline) : i < j => Rank(calls[i].fn) <= Rank(calls[j].fn)
    /\ \A i \in At({"create_SFT_trainer"}) :
         /\ \E j \in At(ModelLoaders) : j < i
         /\ \E j \in At(DataLoaders) : j < i
         /\ bundle # Unbound /\ dataset # Unbound
    /\ Cardinality(At({"train_and_save_model"})) <= 1
    /\ \A i \in At({"train_and_save_model"}) :
         \E j \in At({"create_SFT_trainer"}) : j < i
    /\ trainer = "deleted" =>
         /\ pc = "done"
         /\ \A i \in At({"gc.collect"}), j \in At({"create_SFT_trainer", "train_and_save_model"}) :
              j < i

\* C8 as stated: the fixed order, and every run of main creates the trainer
\* exactly once.
C8_Original ==
    /\ C8_Order
    /\ pc \in {"raised", "done"} => Cardinality(At({"create_SFT_trainer"})) = 1

\* C8 amended: the fixed order; the trainer is created at most once, and
\* exactly once in every run that reaches training; it is trained at most
\* once and only after it was created, and never used after the cleanup.
C8_CreatedAtMostOnce ==
    /\ C8_Order
    /\ Cardinality(At({"create_SFT_trainer"})) <= 1
    /\ (pc \in {"train", "cleanup", "done"} \/ Called({"train_and_save_model"}))
         => Cardinality(At({"create_SFT_trainer"})) = 1

C8_Witness ==
    /\ pc = "done" /\ trainer = "deleted"
    /\ Cardinality(At({"create_SFT_trainer"})) = 1
    /\ Cardinality(At({"train_and_save_model"})) = 1

\* C9: both branch points take the same side: the base model loader is
\* never paired with the public dataset, nor the unsloth loader with the
\* local JSON dataset and its vector-store processing.
C9_BranchesAgree ==
    /\ ~(Called({"load_model_and_tokenizer"})
         /\ Called({"load_and_prepare_unsloth_dataset"}))
    /\ ~(Called({"load_unsloth_model_and_tokenizer"})
         /\ Called({"load_and_process_dataset"}))
    /\ \A h \in history :
         h.load_func = "load_model_and_tokenizer"
            <=> h.data_func = "load_and_process_dataset"

\* a run started without --model has passed both branch points
C9_Witness ==
    /\ model_type = PyNone
    /\ Called(ModelLoaders) /\ Called(DataLoaders)

\* C10: two runs that ask for a save under the same name used the same
\* model loader and the same dataset loader.
C10_NameDeterminesLoaders ==
    \A h1, h2 \in history :
        h1.name = h2.name =>
            /\ h1.load_func = h2.load_func
            /\ h1.data_func = h2.data_func

\* one run on each path has asked for a save, and so have two runs under one name
C10_Witness ==
    /\ run = MaxRuns
    /\ \E h1, h2 \in history :
         /\ h1.run # h2.run
         /\ \/ h1.name = h2.name
            \/ (h1.load_func = "load_model_and_tokenizer"
                /\ h2.load_func = "load_unsloth_model_and_tokenizer")

====
